---- MODULE Spec2Model ----
(***************************************************************************)
(* Order-sync pipeline of the See Before Buy backend:                      *)
(*   routes/sync-orders.js      router.post('/')  (the sync orchestrator)  *)
(*   models/dynamodb-shop.js    ShopModel (checkpoint order_sync)          *)
(*   models/dynamodb-order.js   OrderModel.create (conditional insert)     *)
(*   services/shopify-api.js    ShopifyAPIService (fetch, filter)          *)
(*                                                                         *)
(*   routes/generate-image.js   router.post('/')  (usage quota)            *)
(*                                                                         *)
(* One shop record, one orders table, one order source.  Every `await` of  *)
(* the route handler is one step of a request, so requests interleave at   *)
(* exactly the points where the JavaScript handlers can.  Every DynamoDB   *)
(* call may fail with a storage error (the call then has no effect).       *)
(***************************************************************************)
EXTENDS Integers, Sequences, FiniteSets, TLC

\* ---------------------------------------------------------------- bounds
MaxOrders == 2          \* orders the source may come to hold
MaxTime == 1            \* creation timestamps are 0..MaxTime
MaxRuns == 2            \* sync requests in a row (SeqSpec)
ShopCreatedAt == 0      \* the shop's created_at (app install time)
PageLimit == 2          \* page size used by the model (limit)
MaxPages == 2           \* page cap used by the model (max_pages)

ImagesLimit == 1        \* images_limit of a new shop (free tier)
MaxGens == 3            \* generate-image requests received in one behaviour
MaxUsed == 2            \* cap on images_used for direct usage operations
MaxRetries == 3         \* fetchWithRetry's default maxRetries
MaxItems == 2           \* line items of one order
MaxProps == 1           \* custom attributes of one line item

Procs == {1, 2}         \* request handlers that may run concurrently
Ids == 1..MaxOrders
Times == 0..MaxTime

\* JavaScript's undefined (attribute absent) and null, as integers below
\* every real value so that all fields stay comparable.
Undef == 0 - 2
Null == 0 - 1

\* ------------------------------------------------------------ the state
VARIABLES
  order_sync,        \* shop.order_sync in the shops table
  orders,            \* the orders table: a set of items keyed by order_id
  source,            \* the orders held by the external order source
  now,               \* clock: number of well-formed requests received so far
  pc,                \* per request handler: the await it is suspended at
  shop,              \* per handler: `shop` read at line 27 (its order_sync)
  flagShop,          \* per handler: `shop` read inside setSyncingFlag
  created_at_min,    \* per handler: lower bound handed to fetchOrders
  sbbOrders,         \* per handler: filtered and sorted orders
  idx,               \* per handler: position of the store loop
  newOrdersCount,    \* per handler
  duplicatesSkipped, \* per handler
  response,          \* the response sent last, by whichever handler
  \* history variables (not read by the handlers)
  storeErrors,       \* per handler: order writes that raised a storage error
  absentSeen,        \* per handler: answered creates whose id was absent
  presentSeen,       \* per handler: answered creates whose id was present
  failedAt,          \* per handler: the call whose error started the catch
  did,               \* per handler: side effects performed by the run
  fetched,           \* per handler: the set of orders fetchOrders returned
  totalBefore,       \* per handler: stored total when the request arrived
  newIds,            \* per handler: ids for which create returned a record
  dupIds,            \* per handler: ids for which create returned null
  createdCount,      \* per order id: creates that returned a record
  \* one call of ShopifyAPIService.fetchOrders, attempt by attempt
  remote,            \* what the order source holds and the lower bound asked
  fo,                \* the frame of fetchOrders: page, hasNextPage, cursor, ...
  fh,                \* history of the call: requests sent, attempts, pauses
  \* the usage side of the shop record and the generate-image handlers
  usage,             \* shop.images_used, shop.images_limit, shop.plan_type
  gpc,               \* per generate-image handler: the await it is at
  gshop,             \* per handler: `shop` returned by findOrCreate
  genResponse,       \* the generate-image response sent last
  genCount,          \* well-formed generate-image requests received so far
  \* one call of filterSBBOrders or extractSessionIds on given orders
  ordersArg,         \* the array of orders at hand, line items included
  callee,            \* the function called, and on which order
  returned           \* the array it returned

locals == <<shop, flagShop, created_at_min, sbbOrders, idx,
            newOrdersCount, duplicatesSkipped, response>>
ghosts == <<storeErrors, absentSeen, presentSeen, failedAt, did, fetched,
            totalBefore, newIds, dupIds, createdCount>>
syncVars == <<order_sync, orders, source, now, pc, locals, ghosts>>
fetchVars == <<remote, fo, fh>>
genVars == <<gpc, gshop, genResponse, genCount>>
itemVars == <<ordersArg, callee, returned>>
others == <<fetchVars, genVars, itemVars>>
syncRest == <<orders, source, now, pc, locals, ghosts>>
vars == <<syncVars, others, usage>>

\* -------------------------------------------------------- JS helpers
\* `x || d` for string-valued attributes: undefined and null are falsy.
OrStr(x, d) == IF x \in {Undef, Null} THEN d ELSE x
\* `x || d` for number-valued attributes: undefined, null and 0 are falsy.
OrNum(x, d) == IF x \in {Undef, Null, 0} THEN d ELSE x

\* A shop record whose order_sync attribute is absent: every read through
\* `shop.order_sync?.f` yields undefined.
NoOrderSync ==
  [is_syncing |-> FALSE, last_sync_time |-> Undef,
   last_synced_order_id |-> Undef, last_synced_order_number |-> Undef,
   last_synced_order_created_at |-> Undef, total_orders_synced |-> Undef,
   last_sync_count |-> Undef]

Max(S) == CHOOSE x \in S : \A y \in S : y <= x
Min2(a, b) == IF a <= b THEN a ELSE b
Range(s) == {s[i] : i \in 1..Len(s)}

\* ------------------------------------------------ the orders table
HasItem(tbl, id) == \E it \in tbl : it.order_id = id

\* PutCommand without a ConditionExpression: replaces the item of that key.
PlainPut(tbl, item) ==
  [table |-> {it \in tbl : it.order_id # item.order_id} \cup {item},
   error |-> "none"]

\* A put that reports the uniqueness failure but overwrites the stored item.
ConditionalPutTouch(tbl, item) ==
  IF HasItem(tbl, item.order_id)
  THEN [table |-> {it \in tbl : it.order_id # item.order_id} \cup {item},
        error |-> "ConditionalCheckFailedException"]
  ELSE [table |-> tbl \cup {item}, error |-> "none"]

\* PutCommand with ConditionExpression 'attribute_not_exists(order_id)'.
ConditionalPut(tbl, item) ==
  IF HasItem(tbl, item.order_id)
  THEN [table |-> tbl, error |-> "ConditionalCheckFailedException"]
  ELSE [table |-> tbl \cup {item}, error |-> "none"]

\* OrderModel.create with a catch that reports every failed put as a duplicate.
OrderModelCreateSwallow(tbl, orderData, t, fault) ==
  LET order == [order_id |-> orderData.order_id,
                order_number |-> orderData.order_number,
                created_at |-> OrStr(orderData.created_at, t),
                synced_at |-> t]
      put == IF fault THEN [table |-> tbl, error |-> "StorageError"]
                      ELSE ConditionalPut(tbl, order)
  IN  IF put.error = "none" THEN [table |-> put.table, result |-> "order"]
      ELSE [table |-> put.table, result |-> "null"]

\* OrderModel.create that hands back the record also when the put was refused.
OrderModelCreateAlways(tbl, orderData, t, fault) ==
  LET order == [order_id |-> orderData.order_id,
                order_number |-> orderData.order_number,
                created_at |-> OrStr(orderData.created_at, t),
                synced_at |-> t]
      put == IF fault THEN [table |-> tbl, error |-> "StorageError"]
                      ELSE ConditionalPut(tbl, order)
  IN  IF put.error \in {"none", "ConditionalCheckFailedException"}
      THEN [table |-> put.table, result |-> "order"]
      ELSE [table |-> put.table, result |-> "throw"]

\* OrderModel.create: result "order" (the created record), "null" (already
\* existed) or "throw" (any other storage error is rethrown).
OrderModelCreate(tbl, orderData, t, fault) ==
  LET order == [order_id |-> orderData.order_id,
                order_number |-> orderData.order_number,
                created_at |-> OrStr(orderData.created_at, t),
                synced_at |-> t]
      put == IF fault THEN [table |-> tbl, error |-> "StorageError"]
                      ELSE ConditionalPut(tbl, order)
  IN  IF put.error = "none" THEN [table |-> put.table, result |-> "order"]
      ELSE IF put.error = "ConditionalCheckFailedException"
           THEN [table |-> put.table, result |-> "null"]
           ELSE [table |-> put.table, result |-> "throw"]

\* ------------------------------------------------ the shop's item
\* The attributes of the shop's item that the sync and usage paths write.
ShopItem ==
  [order_sync |-> order_sync, images_used |-> usage.images_used,
   images_limit |-> usage.images_limit, plan_type |-> usage.plan_type]

\* findOrCreate's newShop (dynamodb-shop.js 34-50): no order_sync attribute.
NewShopItem ==
  [order_sync |-> NoOrderSync, images_used |-> 0,
   images_limit |-> ImagesLimit, plan_type |-> "free"]

\* A write that replaces the whole item: attributes not given fall back to
\* those of a new shop.
PutOverNewShop(item, sets) ==
  [a \in DOMAIN item |-> IF a \in DOMAIN sets THEN sets[a] ELSE NewShopItem[a]]

\* UpdateCommand with a SET expression: the named attributes are assigned,
\* every other attribute of the stored item is kept.
UpdateCommand(item, sets) ==
  [a \in DOMAIN item |-> IF a \in DOMAIN sets THEN sets[a] ELSE item[a]]

\* The shop's item after an UpdateCommand on the stored item.
ShopUpdate(sets) ==
  LET item == UpdateCommand(ShopItem, sets)
  IN  /\ order_sync' = item.order_sync
      /\ usage' = [images_used |-> item.images_used,
                   images_limit |-> item.images_limit,
                   plan_type |-> item.plan_type]

\* ------------------------------------------------ the shop's checkpoint
\* ShopModel.setSyncingFlag, lines 226-234: the object built from the shop
\* it has just read.
SyncingFlagData(s, is_syncing) ==
  [is_syncing |-> is_syncing,
   last_sync_time |-> OrStr(s.last_sync_time, Null),
   last_synced_order_id |-> OrStr(s.last_synced_order_id, Null),
   last_synced_order_number |-> OrStr(s.last_synced_order_number, Null),
   last_synced_order_created_at |-> OrStr(s.last_synced_order_created_at, Null),
   total_orders_synced |-> OrNum(s.total_orders_synced, 0),
   last_sync_count |-> OrNum(s.last_sync_count, 0)]

\* The same write built from the record as setSyncingFlag left it stored.
NoNewSyncDataFromStored(s, t) ==
  [SyncingFlagData(s, FALSE) EXCEPT !.last_sync_time = t]

\* sync-orders.js lines 77-81: the checkpoint written when nothing is new.
NoNewSyncData(s, t) ==
  [s EXCEPT !.last_sync_time = t, !.is_syncing = FALSE]

\* The checkpoint with the running total restarted at this run's count.
SyncDataTotalRestarted(s, sorted, newCount, t) ==
  LET latestOrder == sorted[1]
  IN  [is_syncing |-> FALSE,
       last_sync_time |-> t,
       last_synced_order_id |-> latestOrder.id,
       last_synced_order_number |-> OrStr(latestOrder.order_number, latestOrder.name),
       last_synced_order_created_at |-> latestOrder.created_at,
       total_orders_synced |-> newCount,
       last_sync_count |-> newCount]

\* sync-orders.js lines 145-156: the checkpoint written after the loop.
SyncData(s, sorted, newCount, t) ==
  LET latestOrder == sorted[1]
      currentTotal == OrNum(s.total_orders_synced, 0) + newCount
  IN  [is_syncing |-> FALSE,
       last_sync_time |-> t,
       last_synced_order_id |-> latestOrder.id,
       last_synced_order_number |-> OrStr(latestOrder.order_number, latestOrder.name),
       last_synced_order_created_at |-> latestOrder.created_at,
       total_orders_synced |-> currentTotal,
       last_sync_count |-> newCount]

\* A guard that never refuses.
AlreadySyncingIgnored(s) == FALSE

\* A guard that also sees a request which has passed the check and has not
\* yet stored the flag, as a check made in one piece with the write would.
AlreadySyncingOrClaimed(s) ==
  s.is_syncing \/ \E q \in Procs : pc[q] \in {"setFlag_get", "setFlag_update"}

\* sync-orders.js line 34: `shop.order_sync?.is_syncing`.
AlreadySyncing(s) == s.is_syncing

\* The fetch floor without the first-sync fallback to shop.created_at.
SyncStartDateNoInstallDate(s) == s.last_synced_order_created_at

\* sync-orders.js lines 48-53.
SyncStartDate(s) ==
  LET lastSyncTime == s.last_synced_order_created_at
      isFirstSync == lastSyncTime \in {Undef, Null}
  IN  IF isFirstSync THEN ShopCreatedAt ELSE lastSyncTime

\* ------------------------------------------------ the order fetcher
\* buildOrdersQuery line 106: the query filter is present only for a truthy
\* lower bound; the source then returns the orders created at or after it.
Matching(src, createdAtMin) ==
  IF createdAtMin \in {Undef, Null} THEN src
  ELSE {o \in src : o.created_at >= createdAtMin}

\* The orders of a set in every order the source may deliver them.
Deliveries(S) ==
  {f \in [1..Cardinality(S) -> S] : \A i, j \in 1..Cardinality(S) : f[i] = f[j] => i = j}

\* transformGraphQLOrder: the normalized order of a source node.
TransformGraphQLOrder(node) ==
  [id |-> node.id, name |-> node.name, order_number |-> node.name,
   created_at |-> node.created_at, has_marker |-> node.has_marker]

\* fetchOrders lines 35-90: the pagination loop over what is left to deliver.
RECURSIVE FetchLoop(_, _, _, _)
FetchLoop(rest, page, hasNextPage, acc) ==
  IF hasNextPage /\ page <= MaxPages
  THEN LET n == Min2(PageLimit, Len(rest))
           edges == SubSeq(rest, 1, n)
       IN  FetchLoop(SubSeq(rest, n + 1, Len(rest)), page + 1, Len(rest) > n,
                     acc \o [i \in 1..n |-> TransformGraphQLOrder(edges[i])])
  ELSE acc

FetchOrders(delivery) == FetchLoop(delivery, 1, TRUE, <<>>)

\* filterSBBOrders: the orders with a line item carrying the marker.
FilterSBBOrders(os) == SelectSeq(os, LAMBDA o : o.has_marker)

\* The filtered orders left in fetch order.
InsertInFetchOrder(sorted, o) == sorted \o <<o>>

\* Array.prototype.sort with (a, b) => date(b) - date(a): stable, newest first.
RECURSIVE InsertNewestFirst(_, _)
InsertNewestFirst(sorted, o) ==
  IF sorted = <<>> THEN <<o>>
  ELSE IF Head(sorted).created_at >= o.created_at
       THEN <<Head(sorted)>> \o InsertNewestFirst(Tail(sorted), o)
       ELSE <<o>> \o sorted

RECURSIVE SortNewestFirst(_)
SortNewestFirst(s) ==
  IF s = <<>> THEN <<>>
  ELSE InsertNewestFirst(SortNewestFirst(SubSeq(s, 1, Len(s) - 1)), s[Len(s)])

\* ------------------------------------- fetchOrders, attempt by attempt
\* The locals of fetchOrders (lines 29-32) and fetchWithRetry's `attempt`;
\* pc is "idle" before the call, "fetch" when fetchFunction is about to run,
\* and "returned" or "thrown" after it.
FoIdle ==
  [pc |-> "idle", page |-> 1, hasNextPage |-> TRUE, cursor |-> Null,
   allOrders |-> <<>>, attempt |-> 1]

NoOutcome == [kind |-> "none", status |-> 0, text429 |-> FALSE]

\* History of one call: the cursor each page request carried, the cursor of
\* the last item of each page received (Null for an empty page), the HTTP
\* attempts made, the cool-down pauses of the current fetchWithRetry call,
\* the inter-page sleeps, whether the source answered truthfully so far, and
\* the outcome of the last attempt.
FhInit ==
  [requests |-> <<>>, lasts |-> <<>>, attempts |-> 0, pauses |-> 0,
   sleeps |-> 0, honest |-> TRUE, last |-> NoOutcome]

\* Errors fetchFunction throws (line 56): the message holds the status and
\* the response text, which may itself contain the characters "429".
HttpErrors ==
  {[kind |-> "error", status |-> 429, text429 |-> FALSE],
   [kind |-> "error", status |-> 500, text429 |-> FALSE],
   [kind |-> "error", status |-> 500, text429 |-> TRUE]}

\* Line 195: error.message.includes('429').
Includes429(error) == error.status = 429 \/ error.text429

\* fetchWithRetry that gives up at the first failure.
RetryDecisionGiveUp(error, attempt) == "throw"

\* fetchWithRetry that allows one retry more than maxRetries attempts.
RetryDecisionOneMore(error, attempt) ==
  IF Includes429(error) /\ attempt <= MaxRetries THEN "retry" ELSE "throw"

\* fetchWithRetry lines 193-206: what the catch does with a failed attempt.
RetryDecision(error, attempt) ==
  IF Includes429(error) /\ attempt < MaxRetries THEN "retry" ELSE "throw"

\* Line 35: the loop condition.
LoopContinues(hasNextPage, page) == hasNextPage /\ page <= MaxPages

\* The cursor taken from the first item of the page.
NextCursorFirstItem(cursor, hasNextPage, edges) ==
  IF hasNextPage /\ Len(edges) > 0 THEN edges[1].cursor ELSE cursor

\* Lines 80-82: the cursor for the next page.
NextCursor(cursor, hasNextPage, edges) ==
  IF hasNextPage /\ Len(edges) > 0 THEN edges[Len(edges)].cursor ELSE cursor

\* The accumulator replaced by the page instead of extended.
PushOrdersReplace(allOrders, pageOrders) == pageOrders

\* Line 73: allOrders.push(...orders).
PushOrders(allOrders, pageOrders) == allOrders \o pageOrders

\* Lines 104-106 as the source applies them: the orders matching the query
\* filter, in the order the source delivers them.
MatchingSeq(delivery, createdAtMin) ==
  IF createdAtMin \in {Undef, Null} THEN delivery
  ELSE SelectSeq(delivery, LAMBDA o : o.created_at >= createdAtMin)

\* The page a truthful source returns for orders(first: limit, after: cursor):
\* the cursor of an item is its position in the matching sequence.
SourcePage(matching, cursor, limit) ==
  LET c == IF cursor = Null THEN 0 ELSE cursor
      n == Min2(limit, Len(matching) - c)
  IN  [edges |-> [i \in 1..n |-> [cursor |-> c + i, node |-> matching[c + i]]],
       hasNextPage |-> c + n < Len(matching)]

\* Sources large enough to exceed the page cap.
MaxRemote == PageLimit * MaxPages + 1

RemoteNode(i, cut) ==
  [id |-> i, name |-> 100 + i,
   created_at |-> IF i <= cut THEN 0 ELSE MaxTime, has_marker |-> i % 2 = 1]

\* What the source may hold: n orders stamped in the order they were placed,
\* delivered oldest first or newest first.
RemoteDeliveries ==
  UNION {UNION {{[i \in 1..n |-> RemoteNode(i, cut)],
                 [i \in 1..n |-> RemoteNode(n + 1 - i, cut)]} : cut \in 0..n}
         : n \in 0..MaxRemote}

Remotes ==
  {[delivery |-> d, created_at_min |-> m] :
     d \in RemoteDeliveries, m \in {Null} \cup Times}

\* ------------------------------------------------------------- Init
InitShop ==
  /\ order_sync = NoOrderSync
  /\ orders = {}
  /\ now = 0
  /\ pc = [p \in Procs |-> "idle"]
  /\ shop = [p \in Procs |-> NoOrderSync]
  /\ flagShop = [p \in Procs |-> NoOrderSync]
  /\ created_at_min = [p \in Procs |-> Null]
  /\ sbbOrders = [p \in Procs |-> <<>>]
  /\ idx = [p \in Procs |-> 1]
  /\ newOrdersCount = [p \in Procs |-> 0]
  /\ duplicatesSkipped = [p \in Procs |-> 0]
  /\ response = "none"
  /\ storeErrors = [p \in Procs |-> 0]
  /\ absentSeen = [p \in Procs |-> 0]
  /\ presentSeen = [p \in Procs |-> 0]
  /\ failedAt = [p \in Procs |-> "none"]
  /\ did = [p \in Procs |-> {}]
  /\ fetched = [p \in Procs |-> {}]
  /\ totalBefore = [p \in Procs |-> 0]
  /\ newIds = [p \in Procs |-> {}]
  /\ dupIds = [p \in Procs |-> {}]
  /\ createdCount = [i \in Ids |-> 0]

InitSync == InitShop /\ source = {}

\* No call of fetchOrders is being followed attempt by attempt.
InitFetchIdle ==
  /\ remote = [delivery |-> <<>>, created_at_min |-> Null]
  /\ fo = FoIdle
  /\ fh = FhInit

\* The usage attributes of a new shop; no generate-image request running.
InitUsage ==
  /\ usage = [images_used |-> 0, images_limit |-> ImagesLimit, plan_type |-> "free"]
  /\ gpc = [p \in Procs |-> "idle"]
  /\ gshop = [p \in Procs |-> [images_used |-> 0, images_limit |-> 0]]
  /\ genResponse = "none"
  /\ genCount = 0

\* Neither filterSBBOrders nor extractSessionIds is being followed.
InitItemsIdle ==
  /\ ordersArg = <<>>
  /\ callee = [fn |-> "none", i |-> 0]
  /\ returned = <<>>

Init == InitSync /\ InitFetchIdle /\ InitUsage /\ InitItemsIdle

\* ------------------------------------------------------- the actions
\* The handler sends its response and returns: its locals are gone.
Finish(p, resp) ==
  /\ pc' = [pc EXCEPT ![p] = "idle"]
  /\ response' = resp
  /\ shop' = [shop EXCEPT ![p] = NoOrderSync]
  /\ flagShop' = [flagShop EXCEPT ![p] = NoOrderSync]
  /\ created_at_min' = [created_at_min EXCEPT ![p] = Null]
  /\ sbbOrders' = [sbbOrders EXCEPT ![p] = <<>>]
  /\ idx' = [idx EXCEPT ![p] = 1]
  /\ newOrdersCount' = [newOrdersCount EXCEPT ![p] = 0]
  /\ duplicatesSkipped' = [duplicatesSkipped EXCEPT ![p] = 0]
  /\ storeErrors' = [storeErrors EXCEPT ![p] = 0]
  /\ absentSeen' = [absentSeen EXCEPT ![p] = 0]
  /\ presentSeen' = [presentSeen EXCEPT ![p] = 0]
  /\ failedAt' = [failedAt EXCEPT ![p] = "none"]
  /\ did' = [did EXCEPT ![p] = {}]
  /\ fetched' = [fetched EXCEPT ![p] = {}]
  /\ totalBefore' = [totalBefore EXCEPT ![p] = 0]
  /\ newIds' = [newIds EXCEPT ![p] = {}]
  /\ dupIds' = [dupIds EXCEPT ![p] = {}]

\* The order source: a customer places an order.  The source is read only by
\* fetchOrders, so an order placed at any other moment is indistinguishable
\* from one placed just before the next fetch.  The source stamps created_at
\* itself, so a later order is never older than an earlier one.
PlaceOrder ==
  /\ UNCHANGED <<others, usage>>
  /\ Cardinality(source) < MaxOrders
  /\ \E p \in Procs : pc[p] = "fetchOrders"
  /\ \E t \in Times, m \in BOOLEAN :
       /\ \A o \in source : o.created_at <= t
       /\ source' = source \cup
           {[id |-> Cardinality(source) + 1,
             name |-> 100 + Cardinality(source) + 1,
             created_at |-> t, has_marker |-> m]}
  /\ UNCHANGED <<order_sync, orders, now, pc, locals, ghosts>>

\* POST /api/sync-orders arrives (lines 13-21); a body without shop_domain
\* or session is answered 400 at once.  The handlers are interchangeable:
\* a request is taken by the lowest idle one.  At most `limit` well-formed
\* requests arrive.
Request(p, limit) ==
  /\ UNCHANGED <<others, usage>>
  /\ pc[p] = "idle"
  /\ \A q \in Procs : q < p => pc[q] # "idle"
  /\ \E valid \in BOOLEAN :
       IF valid
       THEN /\ now < limit
            /\ now' = now + 1
            /\ pc' = [pc EXCEPT ![p] = "findOne"]
            /\ totalBefore' = [totalBefore EXCEPT ![p] =
                                 OrNum(order_sync.total_orders_synced, 0)]
            /\ UNCHANGED <<shop, flagShop, created_at_min, sbbOrders,
                           idx, newOrdersCount, duplicatesSkipped, response,
                           storeErrors, absentSeen, presentSeen, failedAt, did,
                           fetched, newIds, dupIds>>
       ELSE /\ Finish(p, "bad_request")
            /\ UNCHANGED now
  /\ UNCHANGED <<order_sync, orders, source, createdCount>>

\* Requests that may overlap in every way: as many as there are handlers.
Begin(p) == Request(p, Cardinality(Procs))

\* Lines 27-41: read the shop and check the flag.
Guard(p) ==
  /\ UNCHANGED <<others, usage>>
  /\ pc[p] = "findOne"
  /\ \E fault \in BOOLEAN :
       IF fault
       THEN Finish(p, "error")
       ELSE IF AlreadySyncing(order_sync)
            THEN Finish(p, "in_progress")
            ELSE /\ shop' = [shop EXCEPT ![p] = order_sync]
                 /\ pc' = [pc EXCEPT ![p] = "setFlag_get"]
                 /\ UNCHANGED <<flagShop, created_at_min, sbbOrders,
                                idx, newOrdersCount, duplicatesSkipped, response,
                                storeErrors, absentSeen, presentSeen, failedAt,
                                did, fetched, totalBefore, newIds, dupIds>>
  /\ UNCHANGED <<order_sync, orders, source, now, createdCount>>

\* Line 44, setSyncingFlag(true), first await: findOne (dynamodb-shop.js 219).
\* The call is outside the inner try: an error goes to the outer catch.
SetFlagGet(p) ==
  /\ UNCHANGED <<others, usage>>
  /\ pc[p] = "setFlag_get"
  /\ \E fault \in BOOLEAN :
       IF fault
       THEN Finish(p, "error")
       ELSE /\ flagShop' = [flagShop EXCEPT ![p] = order_sync]
            /\ pc' = [pc EXCEPT ![p] = "setFlag_update"]
            /\ UNCHANGED <<shop, created_at_min, sbbOrders, idx,
                           newOrdersCount, duplicatesSkipped, response,
                           storeErrors, absentSeen, presentSeen, failedAt, did, fetched,
                           totalBefore, newIds, dupIds>>
  /\ UNCHANGED <<order_sync, orders, source, now, createdCount>>

\* setSyncingFlag(true), second await: the UpdateCommand (237-246).
SetFlagUpdate(p) ==
  /\ UNCHANGED others
  /\ pc[p] = "setFlag_update"
  /\ \E fault \in BOOLEAN :
       IF fault
       THEN /\ Finish(p, "error")
            /\ UNCHANGED <<order_sync, usage>>
       ELSE /\ ShopUpdate([order_sync |-> SyncingFlagData(flagShop[p], TRUE)])
            /\ did' = [did EXCEPT ![p] = @ \cup {"flag"}]
            /\ flagShop' = [flagShop EXCEPT ![p] = NoOrderSync]
            /\ pc' = [pc EXCEPT ![p] = "fetchOrders"]
            /\ UNCHANGED <<shop, created_at_min, sbbOrders, idx,
                           newOrdersCount, duplicatesSkipped, response,
                           storeErrors, absentSeen, presentSeen, failedAt,
                           fetched, totalBefore, newIds, dupIds>>
  /\ UNCHANGED <<orders, source, now, createdCount>>

\* Lines 48-94: fetch floor, fetchOrders, filterSBBOrders, sort.  The fetch
\* either throws (error response, GraphQL errors, retries exhausted) or
\* returns the pages the source delivered.
Fetch(p) ==
  /\ UNCHANGED <<others, usage>>
  /\ pc[p] = "fetchOrders"
  /\ created_at_min' = [created_at_min EXCEPT ![p] = SyncStartDate(shop[p])]
  /\ did' = [did EXCEPT ![p] = @ \cup {"fetch"}]
  /\ \E throws \in BOOLEAN :
       IF throws
       THEN /\ pc' = [pc EXCEPT ![p] = "catch_get"]
            /\ failedAt' = [failedAt EXCEPT ![p] = "fetchOrders"]
            /\ UNCHANGED <<fetched, sbbOrders>>
       ELSE \E delivery \in Deliveries(Matching(source, SyncStartDate(shop[p]))) :
              LET allOrders == FetchOrders(delivery)
                  filtered == FilterSBBOrders(allOrders)
              IN  /\ fetched' = [fetched EXCEPT ![p] = Range(allOrders)]
                  /\ sbbOrders' = [sbbOrders EXCEPT ![p] = SortNewestFirst(filtered)]
                  /\ pc' = [pc EXCEPT ![p] =
                              IF Len(filtered) = 0 THEN "noNew_update" ELSE "create"]
                  /\ UNCHANGED failedAt
  /\ UNCHANGED <<order_sync, orders, source, now, shop, flagShop, idx,
                 newOrdersCount, duplicatesSkipped, response, storeErrors,
                 absentSeen, presentSeen, totalBefore, newIds, dupIds, createdCount>>

\* Lines 77-90: nothing new; updateOrderSync with the spread of the shop read
\* at line 27.
NoNewUpdate(p) ==
  /\ UNCHANGED others
  /\ pc[p] = "noNew_update"
  /\ \E fault \in BOOLEAN :
       IF fault
       THEN /\ pc' = [pc EXCEPT ![p] = "catch_get"]
            /\ failedAt' = [failedAt EXCEPT ![p] = "updateOrderSync"]
            /\ UNCHANGED <<order_sync, usage, shop, flagShop, created_at_min, sbbOrders, idx, newOrdersCount, duplicatesSkipped,
                           response, storeErrors, absentSeen, presentSeen, did, fetched,
                           totalBefore, newIds, dupIds>>
       ELSE /\ ShopUpdate([order_sync |-> NoNewSyncData(shop[p], now)])
            /\ Finish(p, "no_new")
  /\ UNCHANGED <<orders, source, now, createdCount>>

\* Line 101, `for (const order of sbbOrders)`: after the i-th of n orders
\* comes the next iteration or, after the last, the checkpoint write.
LoopNext(i, n) == IF i = n THEN "updateOrderSync" ELSE "create"

\* An order's storage error that leaves the loop for the handler's catch.
OrderErrorRethrown(i, n) == "catch_get"

\* Lines 132-136: the catch inside the loop logs the error and goes on.
OrderErrorCaught(i, n) == LoopNext(i, n)

\* Lines 101-137: one iteration of the store loop (one OrderModel.create).
Create(p) ==
  /\ UNCHANGED <<others, usage>>
  /\ pc[p] = "create"
  /\ LET order == sbbOrders[p][idx[p]]
         present == HasItem(orders, order.id)
     IN  \E fault \in BOOLEAN :
           LET r == OrderModelCreate(orders,
                      [order_id |-> order.id,
                       order_number |-> OrStr(order.order_number, order.name),
                       created_at |-> order.created_at], now, fault)
           IN  /\ orders' = r.table
               /\ newOrdersCount' = [newOrdersCount EXCEPT ![p] =
                                       IF r.result = "order" THEN @ + 1 ELSE @]
               /\ duplicatesSkipped' = [duplicatesSkipped EXCEPT ![p] =
                                       IF r.result = "null" THEN @ + 1 ELSE @]
               /\ storeErrors' = [storeErrors EXCEPT ![p] =
                                       IF r.result = "throw" THEN @ + 1 ELSE @]
               /\ absentSeen' = [absentSeen EXCEPT ![p] =
                                       IF ~fault /\ ~present THEN @ + 1 ELSE @]
               /\ presentSeen' = [presentSeen EXCEPT ![p] =
                                       IF ~fault /\ present THEN @ + 1 ELSE @]
               /\ createdCount' = [createdCount EXCEPT ![order.id] =
                                       IF r.result = "order" THEN @ + 1 ELSE @]
               /\ newIds' = [newIds EXCEPT ![p] =
                              IF r.result = "order" THEN @ \cup {order.id} ELSE @]
               /\ dupIds' = [dupIds EXCEPT ![p] =
                              IF r.result = "null" THEN @ \cup {order.id} ELSE @]
               /\ did' = [did EXCEPT ![p] =
                            IF r.table # orders THEN @ \cup {"order"} ELSE @]
               /\ pc' = [pc EXCEPT ![p] =
                           IF r.result = "throw"
                           THEN OrderErrorCaught(idx[p], Len(sbbOrders[p]))
                           ELSE LoopNext(idx[p], Len(sbbOrders[p]))]
  /\ idx' = [idx EXCEPT ![p] = @ + 1]
  /\ UNCHANGED <<order_sync, source, now, shop, flagShop, created_at_min,
                 sbbOrders, response, failedAt, fetched, totalBefore>>

\* Lines 145-169: the checkpoint write and the summary.
UpdateOrderSync(p) ==
  /\ UNCHANGED others
  /\ pc[p] = "updateOrderSync"
  /\ \E fault \in BOOLEAN :
       IF fault
       THEN /\ pc' = [pc EXCEPT ![p] = "catch_get"]
            /\ failedAt' = [failedAt EXCEPT ![p] = "updateOrderSync"]
            /\ UNCHANGED <<order_sync, usage, shop, flagShop, created_at_min, sbbOrders, idx, newOrdersCount, duplicatesSkipped,
                           response, storeErrors, absentSeen, presentSeen, did, fetched,
                           totalBefore, newIds, dupIds>>
       ELSE /\ ShopUpdate([order_sync |-> SyncData(shop[p], sbbOrders[p], newOrdersCount[p], now)])
            /\ Finish(p, "synced")
  /\ UNCHANGED <<orders, source, now, createdCount>>

\* Lines 171-175, setSyncingFlag(false), first await.  An error thrown here
\* replaces the original one and reaches the outer catch (177-183).
CatchGet(p) ==
  /\ UNCHANGED <<others, usage>>
  /\ pc[p] = "catch_get"
  /\ \E fault \in BOOLEAN :
       IF fault
       THEN Finish(p, "error")
       ELSE /\ flagShop' = [flagShop EXCEPT ![p] = order_sync]
            /\ pc' = [pc EXCEPT ![p] = "catch_update"]
            /\ UNCHANGED <<shop, created_at_min, sbbOrders, idx,
                           newOrdersCount, duplicatesSkipped, response,
                           storeErrors, absentSeen, presentSeen, failedAt, did, fetched,
                           totalBefore, newIds, dupIds>>
  /\ UNCHANGED <<order_sync, orders, source, now, createdCount>>

\* setSyncingFlag(false), second await, then `throw error` and the 500.
CatchUpdate(p) ==
  /\ UNCHANGED others
  /\ pc[p] = "catch_update"
  /\ \E fault \in BOOLEAN :
       IF fault
       THEN UNCHANGED <<order_sync, usage>>
       ELSE ShopUpdate([order_sync |-> SyncingFlagData(flagShop[p], FALSE)])
  /\ Finish(p, "error")
  /\ UNCHANGED <<orders, source, now, createdCount>>

Step(p) ==
  \/ Guard(p) \/ SetFlagGet(p) \/ SetFlagUpdate(p) \/ Fetch(p)
  \/ NoNewUpdate(p) \/ Create(p) \/ UpdateOrderSync(p)
  \/ CatchGet(p) \/ CatchUpdate(p)

Next ==
  \/ PlaceOrder
  \/ \E p \in Procs : Begin(p)
  \/ \E p \in Procs : Step(p)

Spec == Init /\ [][Next]_vars

\* Requests of one shop that never overlap: a request arrives only when no
\* handler is running; MaxRuns of them, one after the other.
BeginAlone(p) ==
  /\ \A q \in Procs : pc[q] = "idle"
  /\ Request(p, MaxRuns)

NextSeq ==
  \/ PlaceOrder
  \/ \E p \in Procs : BeginAlone(p)
  \/ \E p \in Procs : Step(p)

SeqSpec == Init /\ [][NextSeq]_vars

\* The event loop resumes every handler whose awaited call has settled.
FairSpec == Spec /\ \A p \in Procs : WF_vars(Step(p))


\* ------------------------------------ runs over a source that is fixed
\* The sets of orders a source may hold, stamped in the order of their ids.
SourceSets ==
  UNION {{{[id |-> i, name |-> 100 + i,
            created_at |-> f[i][1], has_marker |-> f[i][2]] : i \in 1..k}
          : f \in {g \in [1..k -> Times \X BOOLEAN] :
                     \A i, j \in 1..k : i < j => g[i][1] <= g[j][1]}}
         : k \in 0..MaxOrders}

\* The source holds its orders before the first request and gets no other.
InitFixed ==
  /\ InitShop /\ InitFetchIdle /\ InitUsage /\ InitItemsIdle
  /\ source \in SourceSets

NextFixed ==
  \/ \E p \in Procs : BeginAlone(p)
  \/ \E p \in Procs : Step(p)

FixedSpec == InitFixed /\ [][NextFixed]_vars

\* ------------------------------------------- one call of fetchOrders
\* Lines 29-35: the call starts and the loop condition is tested once.
CallFetchOrders ==
  /\ fo.pc = "idle"
  /\ LET cont == LoopContinues(TRUE, 1)
     IN  /\ fo' = [FoIdle EXCEPT !.pc = IF cont THEN "fetch" ELSE "returned"]
         /\ fh' = [fh EXCEPT !.requests = IF cont THEN <<Null>> ELSE <<>>]
  /\ UNCHANGED <<remote, syncVars, genVars, itemVars, usage>>

\* Lines 42-60 and 189-209: fetchFunction throws (non-2xx response); the
\* catch of fetchWithRetry pauses and retries, or rethrows (then 95-98).
AttemptFails ==
  /\ fo.pc = "fetch"
  /\ \E error \in HttpErrors :
       IF RetryDecision(error, fo.attempt) = "retry"
       THEN /\ fo' = [fo EXCEPT !.attempt = @ + 1]
            /\ fh' = [fh EXCEPT !.attempts = @ + 1, !.pauses = @ + 1,
                                !.last = error]
       ELSE /\ fo' = [fo EXCEPT !.pc = "thrown"]
            /\ fh' = [fh EXCEPT !.attempts = @ + 1, !.last = error]
  /\ UNCHANGED <<remote, syncVars, genVars, itemVars, usage>>

\* Lines 62-70: a 2xx response with a GraphQL errors list, or without
\* data.orders, makes fetchOrders throw.
AttemptBadBody ==
  /\ fo.pc = "fetch"
  /\ \E kind \in {"errors", "nodata"} :
       /\ fo' = [fo EXCEPT !.pc = "thrown"]
       /\ fh' = [fh EXCEPT !.attempts = @ + 1,
                           !.last = [NoOutcome EXCEPT !.kind = kind]]
  /\ UNCHANGED <<remote, syncVars, genVars, itemVars, usage>>

\* Lines 72-90: a page arrives.  The source answers truthfully, or with an
\* empty page, or claiming that more pages follow.
AttemptPage ==
  /\ fo.pc = "fetch"
  /\ \E emptyPage \in BOOLEAN, claimsMore \in BOOLEAN :
       LET truth == SourcePage(MatchingSeq(remote.delivery, remote.created_at_min),
                               fo.cursor, PageLimit)
           edges == IF emptyPage THEN <<>> ELSE truth.edges
           hasNextPage == IF claimsMore THEN TRUE ELSE truth.hasNextPage
           pageOrders == [i \in 1..Len(edges) |-> TransformGraphQLOrder(edges[i].node)]
           cursor == NextCursor(fo.cursor, hasNextPage, edges)
           cont == LoopContinues(hasNextPage, fo.page + 1)
       IN  /\ fo' = [pc |-> IF cont THEN "fetch" ELSE "returned",
                     page |-> fo.page + 1,
                     hasNextPage |-> hasNextPage,
                     cursor |-> cursor,
                     allOrders |-> PushOrders(fo.allOrders, pageOrders),
                     attempt |-> 1]
           /\ fh' = [requests |-> IF cont THEN Append(fh.requests, cursor)
                                          ELSE fh.requests,
                     lasts |-> Append(fh.lasts,
                                 IF Len(edges) > 0 THEN edges[Len(edges)].cursor
                                                   ELSE Null),
                     attempts |-> fh.attempts + 1,
                     pauses |-> IF cont THEN 0 ELSE fh.pauses,
                     sleeps |-> IF hasNextPage THEN fh.sleeps + 1 ELSE fh.sleeps,
                     honest |-> /\ fh.honest
                                /\ edges = truth.edges
                                /\ hasNextPage = truth.hasNextPage,
                     last |-> [NoOutcome EXCEPT !.kind = "page"]]
  /\ UNCHANGED <<remote, syncVars, genVars, itemVars, usage>>

NextFetch ==
  \/ CallFetchOrders
  \/ AttemptFails
  \/ AttemptBadBody
  \/ AttemptPage

\* One call of fetchOrders on any source and lower bound.
InitFetch ==
  /\ InitSync /\ InitUsage /\ InitItemsIdle
  /\ remote \in Remotes
  /\ fo = FoIdle
  /\ fh = FhInit

FetchSpec == InitFetch /\ [][NextFetch]_vars

\* Every HTTP attempt settles.
FairFetchSpec == FetchSpec /\ WF_vars(NextFetch)

\* ------------------------------------------ POST /api/generate-image
\* The handler sends its response and returns.
GenFinish(p, resp) ==
  /\ gpc' = [gpc EXCEPT ![p] = "idle"]
  /\ gshop' = [gshop EXCEPT ![p] = [images_used |-> 0, images_limit |-> 0]]
  /\ genResponse' = resp

\* Lines 21-35: the request arrives; one without shop_domain or image is
\* answered 400.  A request is taken by the lowest idle handler.
GenRequest(p) ==
  /\ gpc[p] = "idle"
  /\ \A q \in Procs : q < p => gpc[q] # "idle"
  /\ \E valid \in BOOLEAN :
       IF valid
       THEN /\ genCount < MaxGens
            /\ genCount' = genCount + 1
            /\ gpc' = [gpc EXCEPT ![p] = "findOrCreate"]
            /\ UNCHANGED <<gshop, genResponse>>
       ELSE /\ GenFinish(p, "bad_request")
            /\ UNCHANGED genCount
  /\ UNCHANGED <<syncVars, fetchVars, itemVars, usage>>

\* Lines 43-57: read the shop, then the usage-limit check.
GenFindOrCreate(p) ==
  /\ gpc[p] = "findOrCreate"
  /\ \E fault \in BOOLEAN :
       IF fault
       THEN GenFinish(p, "error")
       ELSE IF usage.images_used >= usage.images_limit
            THEN GenFinish(p, "limit_reached")
            ELSE /\ gshop' = [gshop EXCEPT ![p] =
                                [images_used |-> usage.images_used,
                                 images_limit |-> usage.images_limit]]
                 /\ gpc' = [gpc EXCEPT ![p] = "generateImageWithGemini"]
                 /\ UNCHANGED genResponse
  /\ UNCHANGED <<syncVars, fetchVars, itemVars, usage, genCount>>

\* Lines 64-69: the call of the image provider, which may throw.
GenGemini(p) ==
  /\ gpc[p] = "generateImageWithGemini"
  /\ \E throws \in BOOLEAN :
       IF throws
       THEN GenFinish(p, "error")
       ELSE /\ gpc' = [gpc EXCEPT ![p] = "incrementUsage"]
            /\ UNCHANGED <<gshop, genResponse>>
  /\ UNCHANGED <<syncVars, fetchVars, itemVars, usage, genCount>>

\* Line 76, ShopModel.incrementUsage (dynamodb-shop.js 88-107):
\* SET images_used = images_used + 1, without a condition.
GenIncrementUsage(p) ==
  /\ gpc[p] = "incrementUsage"
  /\ \E fault \in BOOLEAN :
       IF fault
       THEN /\ GenFinish(p, "error")
            /\ UNCHANGED <<order_sync, usage>>
       ELSE /\ ShopUpdate([images_used |-> usage.images_used + 1])
            /\ gpc' = [gpc EXCEPT ![p] = "log"]
            /\ UNCHANGED <<gshop, genResponse>>
  /\ UNCHANGED <<syncRest, fetchVars, itemVars, genCount>>

\* Lines 80-106: the usage log entry and the success response.
GenLog(p) ==
  /\ gpc[p] = "log"
  /\ \E fault \in BOOLEAN :
       GenFinish(p, IF fault THEN "error" ELSE "success")
  /\ UNCHANGED <<syncVars, fetchVars, itemVars, usage, genCount>>

GenStep(p) ==
  \/ GenFindOrCreate(p) \/ GenGemini(p) \/ GenIncrementUsage(p) \/ GenLog(p)

NextGen ==
  \/ \E p \in Procs : GenRequest(p)
  \/ \E p \in Procs : GenStep(p)

\* Generate-image requests of one shop, overlapping in every way.
GenSpec == Init /\ [][NextGen]_vars

\* ------------------------------- usage operations beside a sync run
\* ShopModel.incrementUsage called on its own.
IncrementUsage ==
  /\ usage.images_used < MaxUsed
  /\ ShopUpdate([images_used |-> usage.images_used + 1])
  /\ UNCHANGED <<syncRest, fetchVars, itemVars, genVars>>

\* ShopModel.resetMonthlyUsage (dynamodb-shop.js 146-165).
ResetMonthlyUsage ==
  /\ ShopUpdate([images_used |-> 0])
  /\ UNCHANGED <<syncRest, fetchVars, itemVars, genVars>>

\* ShopModel.updatePlan (dynamodb-shop.js 110-143) as /upgrade-plan calls it.
UpdatePlan ==
  /\ \E plan \in {"free", "pro"}, limit \in {ImagesLimit, ImagesLimit + 1} :
       ShopUpdate([plan_type |-> plan, images_limit |-> limit, images_used |-> 0])
  /\ UNCHANGED <<syncRest, fetchVars, itemVars, genVars>>

\* One sync request at most, over a fixed source.
SyncOnce(p) == Request(p, 1)

NextShared ==
  \/ \E p \in Procs : SyncOnce(p)
  \/ \E p \in Procs : Step(p)
  \/ IncrementUsage
  \/ ResetMonthlyUsage
  \/ UpdatePlan

\* A sync run interleaved in every way with usage operations on its shop.
SharedSpec == InitFixed /\ [][NextShared]_vars

\* ------------------------- filterSBBOrders and extractSessionIds alone
\* A custom attribute of a line item, as transformGraphQLOrder lines 172-175
\* leave it: {name, value}.
Props == [name : {"_sbb_try_on", "_sbb_session_id"}, value : {"true", "s1", ""}]

PropertyLists == UNION {[1..n -> Props] : n \in 0..MaxProps}

\* A line item, with or without a `properties` attribute.
Items ==
  {[quantity |-> 1]} \cup {[quantity |-> 1, properties |-> ps] : ps \in PropertyLists}

LineItemLists == UNION {[1..n -> Items] : n \in 0..MaxItems}

\* An order, with or without a `line_items` attribute.
OrderPool ==
  {[id |-> 1]} \cup {[id |-> 1, line_items |-> l] : l \in LineItemLists}

\* Orders that arrive together in one array.
SampleOrders ==
  {[id |-> 11],
   [id |-> 12, line_items |-> <<>>],
   [id |-> 13, line_items |-> <<[quantity |-> 1]>>],
   [id |-> 14, line_items |->
      <<[quantity |-> 1, properties |-> <<[name |-> "_sbb_try_on", value |-> "true"]>>]>>],
   [id |-> 15, line_items |->
      <<[quantity |-> 1, properties |-> <<>>],
        [quantity |-> 1, properties |-> <<[name |-> "_sbb_try_on", value |-> "true"]>>]>>],
   [id |-> 16, line_items |->
      <<[quantity |-> 1, properties |-> <<[name |-> "_sbb_try_on", value |-> ""]>>],
        [quantity |-> 1, properties |-> <<[name |-> "_sbb_session_id", value |-> "true"]>>]>>]}

InputArrays ==
  {<<o>> : o \in OrderPool} \cup UNION {[1..n -> SampleOrders] : n \in 0..MaxOrders}

\* shopify-api.js 221-223: `item.properties?.some(prop => ...)`; undefined
\* (falsy) when the item has no properties.
ItemHasMarker(item) ==
  IF "properties" \in DOMAIN item
  THEN \E j \in 1..Len(item.properties) :
         /\ item.properties[j].name = "_sbb_try_on"
         /\ item.properties[j].value = "true"
  ELSE FALSE

\* A filter callback that looks at the first line item only.
IsSBBOrderFirstItem(order) ==
  IF "line_items" \in DOMAIN order
  THEN Len(order.line_items) > 0 /\ ItemHasMarker(order.line_items[1])
  ELSE FALSE

\* shopify-api.js 219-225: the callback handed to orders.filter.
IsSBBOrder(order) ==
  IF "line_items" \in DOMAIN order
  THEN \E i \in 1..Len(order.line_items) : ItemHasMarker(order.line_items[i])
  ELSE FALSE

\* filterSBBOrders on orders that carry their line items.
FilterSBBOrdersByLineItems(os) == SelectSeq(os, IsSBBOrder)

\* shopify-api.js 240-244: the inner forEach, pushing onto sessionIds.
RECURSIVE PushSessionIdsOfProps(_, _)
PushSessionIdsOfProps(sessionIds, props) ==
  IF props = <<>> THEN sessionIds
  ELSE LET prop == Head(props)
       IN  PushSessionIdsOfProps(
             IF prop.name = "_sbb_session_id" /\ prop.value # ""
             THEN Append(sessionIds, prop.value) ELSE sessionIds,
             Tail(props))

\* shopify-api.js 239-245: the outer forEach over the line items.
RECURSIVE PushSessionIdsOfItems(_, _)
PushSessionIdsOfItems(sessionIds, items) ==
  IF items = <<>> THEN sessionIds
  ELSE LET item == Head(items)
       IN  PushSessionIdsOfItems(
             IF "properties" \in DOMAIN item
             THEN PushSessionIdsOfProps(sessionIds, item.properties)
             ELSE sessionIds,
             Tail(items))

\* The array returned as it was filled.
SpreadOfArray(s) == s

\* Line 247, `[...new Set(sessionIds)]`: each value once, at the place of
\* its first occurrence.
RECURSIVE SpreadOfSet(_)
SpreadOfSet(s) ==
  IF s = <<>> THEN <<>>
  ELSE LET front == SpreadOfSet(SubSeq(s, 1, Len(s) - 1))
       IN  IF s[Len(s)] \in Range(front) THEN front ELSE Append(front, s[Len(s)])

\* extractSessionIds (236-248).
ExtractSessionIds(order) ==
  SpreadOfSet(IF "line_items" \in DOMAIN order
              THEN PushSessionIdsOfItems(<<>>, order.line_items)
              ELSE <<>>)

CallFilterSBBOrders ==
  /\ callee.fn = "none"
  /\ callee' = [fn |-> "filterSBBOrders", i |-> 0]
  /\ returned' = FilterSBBOrdersByLineItems(ordersArg)
  /\ UNCHANGED <<ordersArg, syncVars, fetchVars, genVars, usage>>

CallExtractSessionIds ==
  /\ callee.fn = "none"
  /\ \E i \in 1..Len(ordersArg) :
       /\ callee' = [fn |-> "extractSessionIds", i |-> i]
       /\ returned' = ExtractSessionIds(ordersArg[i])
  /\ UNCHANGED <<ordersArg, syncVars, fetchVars, genVars, usage>>

NextItems == CallFilterSBBOrders \/ CallExtractSessionIds

InitItems ==
  /\ InitSync /\ InitFetchIdle /\ InitUsage
  /\ ordersArg \in InputArrays
  /\ callee = [fn |-> "none", i |-> 0]
  /\ returned = <<>>

ItemsSpec == InitItems /\ [][NextItems]_vars

\* ------------------------------------------------------------ claims
\* A run that has passed the guard and written is_syncing = true.
InRun(p) ==
  pc[p] \in {"fetchOrders", "noNew_update", "create", "updateOrderSync",
             "catch_get", "catch_update"}

Total(s) == OrNum(s.total_orders_synced, 0)

\* The marker-tagged orders among those a run fetched.
Filtered(p) == {o \in fetched[p] : o.has_marker}

\* Handler p performs one OrderModel.create in this step.
CreateStep(p) == pc[p] = "create" /\ idx'[p] = idx[p] + 1

\* C1: the orders table holds at most one item per order_id; a create for an
\* absent id that the table answers inserts the record and returns it, and a
\* create for a present id never returns a record, leaves the table (and so
\* the stored record) unchanged, and returns null (the uniqueness failure is
\* not raised as an error).
C1_CreateIsIdempotent ==
  [][\A p \in Procs : CreateStep(p) =>
       LET order == sbbOrders[p][idx[p]]
           answered == storeErrors'[p] = storeErrors[p]
       IN  /\ \A a, b \in orders' : a.order_id = b.order_id => a = b
           /\ (~HasItem(orders, order.id) /\ answered) =>
                /\ newOrdersCount'[p] = newOrdersCount[p] + 1
                /\ orders' = orders \cup
                     {[order_id |-> order.id, order_number |-> order.name,
                       created_at |-> order.created_at, synced_at |-> now]}
           /\ HasItem(orders, order.id) =>
                /\ orders' = orders
                /\ newOrdersCount'[p] = newOrdersCount[p]
                /\ answered => duplicatesSkipped'[p] = duplicatesSkipped[p] + 1
    ]_vars

\* C1 witness: an order was created once and a later create of it, by a later
\* run, returned null.
C1_Witness ==
  \E p \in Procs : \E i \in dupIds[p] :
    /\ createdCount[i] = 1
    /\ \E it \in orders : it.order_id = i /\ it.synced_at < now

\* C2: under every interleaving of overlapping runs, each order id is returned
\* as created to at most one caller and stored once; every other caller whose
\* create was answered got null, so no two runs count the same order as new.
C2_OneCreatorUnderConcurrency ==
  \A i \in Ids :
    /\ createdCount[i] <= 1
    /\ Cardinality({it \in orders : it.order_id = i}) = createdCount[i]
    /\ Cardinality({p \in Procs : i \in newIds[p]}) <= 1
    /\ \A p \in Procs :
         /\ ~(i \in newIds[p] /\ i \in dupIds[p])
         /\ i \in newIds[p] \cup dupIds[p] => createdCount[i] = 1

\* C2 witness: two runs overlap, both have attempted the same order; one
\* received the record and the other null.
C2_Witness ==
  \E p, q \in Procs : \E i \in Ids :
    /\ p # q /\ InRun(p) /\ InRun(q)
    /\ i \in newIds[p] /\ i \in dupIds[q]

\* C3: a request whose read of the shop finds is_syncing = true ends at once
\* with "Sync already in progress"; up to and including that step it wrote
\* neither the checkpoint nor the orders table and did not fetch.  (The
\* response is "error" only when the read itself failed.)
C3_GuardRefusesWithoutEffect ==
  [][\A p \in Procs :
       (pc[p] = "findOne" /\ order_sync.is_syncing /\ pc'[p] # "findOne") =>
         /\ pc'[p] = "idle"
         /\ response' \in {"in_progress", "error"}
         /\ order_sync' = order_sync
         /\ orders' = orders
         /\ did[p] = {}
    ]_vars

\* C3 witness: a request was answered "Sync already in progress" while the
\* flag is set.
C3_Witness ==
  response = "in_progress" /\ order_sync.is_syncing

\* C4: whenever the stored is_syncing is true, a run that set it is still
\* executing; so a run that passed the guard and set the flag has left
\* is_syncing = false when it sends its response, on every exit path.
C4_FlagClearedOnEveryExit ==
  order_sync.is_syncing => \E p \in Procs : InRun(p)

\* C5: a run whose checkpoint write (updateOrderSync) failed has
\* is_syncing = false in the store when it sends its error response, whatever
\* the storage layer does to the flag-clearing write (no other run being in
\* progress to hold the flag).
C5_FlagClearedAfterCheckpointFailure ==
  [][\A p \in Procs :
       (/\ pc[p] \in {"catch_get", "catch_update"}
        /\ failedAt[p] = "updateOrderSync"
        /\ pc'[p] = "idle"
        /\ \A q \in Procs \ {p} : ~InRun(q))
       => ~order_sync'.is_syncing
    ]_vars

\* C6: is_syncing = true always leads to is_syncing = false.
C6_SyncingLeadsToIdle ==
  order_sync.is_syncing ~> ~order_sync.is_syncing

\* Handler p completes its checkpoint write after the store loop.
SyncedStep(p) ==
  pc[p] = "updateOrderSync" /\ pc'[p] = "idle" /\ response' = "synced"

\* C7 as stated: after a successful run with a non-empty filtered set,
\* last_synced_order_created_at is the maximum creation timestamp among all
\* orders the run fetched.
C7_HighWaterIsMaxOfAllFetched ==
  [][\A p \in Procs : SyncedStep(p) =>
       order_sync'.last_synced_order_created_at =
         Max({o.created_at : o \in fetched[p]})
    ]_vars

\* C7 amended: after a successful run with a non-empty filtered set,
\* last_synced_order_created_at is the maximum creation timestamp among the
\* marker-tagged orders the run fetched, whatever the order of delivery.
C7_HighWaterIsMaxOfFiltered ==
  [][\A p \in Procs : SyncedStep(p) =>
       order_sync'.last_synced_order_created_at =
         Max({o.created_at : o \in Filtered(p)})
    ]_vars

\* C7 witness: a run stored an older and a newer order and its checkpoint,
\* written at the same clock value, carries the newer creation time.
C7_Witness ==
  \E a, b \in orders :
    /\ response = "synced"
    /\ a.created_at < b.created_at
    /\ a.synced_at = order_sync.last_sync_time
    /\ b.synced_at = order_sync.last_sync_time
    /\ order_sync.last_synced_order_created_at = b.created_at
    /\ order_sync.last_sync_count = 2

\* C8: with non-overlapping runs, the stored total after a run is the total
\* when the request arrived plus the run's new-order count (zero unless the run
\* answered with a sync summary); it never decreases; last_sync_count after a
\* successful non-empty run is that run's new-order count.
C8_TotalGrowsByNewCount ==
  [][/\ Total(order_sync') >= Total(order_sync)
     /\ \A p \in Procs : (pc[p] # "idle" /\ pc'[p] = "idle") =>
          /\ Total(order_sync') = totalBefore[p] +
               (IF response' = "synced" THEN newOrdersCount[p] ELSE 0)
          /\ response' = "synced" =>
               order_sync'.last_sync_count = newOrdersCount[p]
    ]_vars

\* C8 witness: a second run added one new order to a total of one.
C8_Witness ==
  /\ response = "synced"
  /\ order_sync.total_orders_synced = 2
  /\ order_sync.last_sync_count = 1

\* C9: once a run has called the fetcher, the lower bound it passed is present
\* (a filter is applied), equals the shop's created_at when the checkpoint read
\* at the guard has no last_synced_order_created_at and equals that value
\* otherwise, and no fetched order is older than it.
C9_FetchFloor ==
  \A p \in Procs : "fetch" \in did[p] =>
    /\ created_at_min[p] \notin {Undef, Null}
    /\ shop[p].last_synced_order_created_at \in {Undef, Null}
         => created_at_min[p] = ShopCreatedAt
    /\ shop[p].last_synced_order_created_at \notin {Undef, Null}
         => created_at_min[p] = shop[p].last_synced_order_created_at
    /\ \A o \in fetched[p] : o.created_at >= created_at_min[p]

\* C9 witness: a later sync fetched from the last synced order's creation
\* time, which differs from the shop's created_at.
C9_Witness ==
  \E p \in Procs :
    /\ "fetch" \in did[p]
    /\ created_at_min[p] # ShopCreatedAt
    /\ created_at_min[p] = shop[p].last_synced_order_created_at
    /\ fetched[p] # {}

\* C10: in a run with a non-empty filtered set, new_orders is the number of
\* answered creates that found the id absent and duplicates_skipped the number
\* that found it present; without a storage error on an order write the two
\* add up to the size of the filtered set; last_synced_order_id is the id of a
\* filtered order of latest creation time.
C10_CountsAndLatestId ==
  [][\A p \in Procs : SyncedStep(p) =>
       /\ Filtered(p) # {}
       /\ newOrdersCount[p] = absentSeen[p]
       /\ duplicatesSkipped[p] = presentSeen[p]
       /\ storeErrors[p] = 0 =>
            newOrdersCount[p] + duplicatesSkipped[p] = Cardinality(Filtered(p))
       /\ \E o \in Filtered(p) :
            /\ o.id = order_sync'.last_synced_order_id
            /\ \A x \in Filtered(p) : x.created_at <= o.created_at
    ]_vars

\* C10 witness: a store loop over two marker-tagged orders of different
\* creation times ended with one new order and one duplicate.
C10_Witness ==
  \E p \in Procs :
    /\ pc[p] = "updateOrderSync"
    /\ newOrdersCount[p] = 1 /\ duplicatesSkipped[p] = 1 /\ storeErrors[p] = 0
    /\ Len(sbbOrders[p]) = 2
    /\ sbbOrders[p][1].created_at > sbbOrders[p][2].created_at

\* C11: with non-overlapping runs, a run whose fetchOrders threw answers with
\* the error response, leaves is_syncing = false, has created no order, and
\* leaves last_sync_time, last_synced_order_id/number/created_at,
\* total_orders_synced and last_sync_count as the run read them at line 27
\* (an absent attribute and its null or 0 default being the same value); no
\* step of any run removes or alters a stored order.
C11_FetchFailureLeavesCheckpoint ==
  [][/\ orders \subseteq orders'
     /\ \A p \in Procs :
          (/\ pc[p] \in {"catch_get", "catch_update"}
           /\ failedAt[p] = "fetchOrders"
           /\ pc'[p] = "idle")
          => /\ response' = "error"
             /\ ~order_sync'.is_syncing
             /\ "order" \notin did[p] /\ newIds[p] = {}
             /\ SyncingFlagData(order_sync', FALSE) = SyncingFlagData(shop[p], FALSE)
    ]_vars

\* The orders the source holds that match the lower bound, as delivered.
RemoteMatching == MatchingSeq(remote.delivery, remote.created_at_min)

\* The normalized orders of the first k matching orders.
Normalized(k) == [i \in 1..k |-> TransformGraphQLOrder(RemoteMatching[i])]

\* The last attempt failed with HTTP status 429.
RateLimited(outcome) == outcome.kind = "error" /\ outcome.status = 429

\* C12: an attempt that is rate-limited before the last allowed one is
\* followed, after one cool-down pause, by another attempt for the same
\* page; the attempt that succeeds is attempt k after exactly k-1 pauses of
\* its fetchWithRetry call and hands its page to the loop; and a call that
\* returns from a truthful source returns what a call without any error
\* returns (FetchOrders, the value the sync run works on), however many
\* rate-limit errors it met.
C12_RetryThenSuccess ==
  [][fo.pc = "fetch" =>
       /\ fh.pauses = fo.attempt - 1
       /\ fo.attempt <= MaxRetries
       /\ (RateLimited(fh'.last) /\ fo.attempt < MaxRetries) =>
            /\ fo' = [fo EXCEPT !.attempt = @ + 1]
            /\ fh'.pauses = fh.pauses + 1
            /\ fh'.requests = fh.requests
       /\ fh'.last.kind = "page" =>
            /\ fo'.page = fo.page + 1
            /\ fo'.pc = "returned" => fh'.pauses = fo.attempt - 1
       /\ (fo'.pc = "returned" /\ fh'.honest) =>
            fo'.allOrders = FetchOrders(RemoteMatching)
    ]_vars

\* C12 witness: a call over two pages returned from a truthful source, its
\* last page having succeeded on attempt 3 after two cool-down pauses.
C12_Witness ==
  /\ fo.pc = "returned" /\ fh.honest
  /\ fh.pauses = MaxRetries - 1
  /\ Len(fh.requests) = 2
  /\ Len(fo.allOrders) > PageLimit

\* C15 as stated: a call that returns from a truthful source returns every
\* matching order of the source, each once, in delivery order, for any number
\* of matching orders.
C15_ReturnsEveryMatchingOrder ==
  (fo.pc = "returned" /\ fh.honest) =>
    fo.allOrders = Normalized(Len(RemoteMatching))

\* C15 amended: a call that returns from a truthful source returns, each once
\* and in delivery order, the matching orders up to the first
\* limit x max_pages of them: every matching order when there are no more
\* than that.
C15_ReturnsMatchingUpToCap ==
  (fo.pc = "returned" /\ fh.honest) =>
    fo.allOrders = Normalized(Min2(Len(RemoteMatching), PageLimit * MaxPages))

\* C15 witness: a call returned every matching order of a source that also
\* holds older orders, over two pages.
C15_Witness ==
  /\ fo.pc = "returned" /\ fh.honest
  /\ Len(fh.requests) = 2
  /\ Len(RemoteMatching) < Len(remote.delivery)
  /\ Len(fo.allOrders) = Len(RemoteMatching)

\* C18: an attempt that fails with a status other than 429 is the last one
\* (fetchOrders throws); a rate-limited attempt before attempt maxRetries is
\* retried, and the rate-limited attempt maxRetries throws after
\* maxRetries - 1 pauses; a response with a GraphQL errors list throws
\* without another attempt.
C18_RetryOnlyOnRateLimit ==
  [][fo.pc = "fetch" =>
       /\ (fh'.last.kind = "error" /\ fh'.last.status # 429) => fo'.pc = "thrown"
       /\ (RateLimited(fh'.last) /\ fo.attempt < MaxRetries) => fo'.pc = "fetch"
       /\ (RateLimited(fh'.last) /\ fo.attempt = MaxRetries) =>
            fo'.pc = "thrown" /\ fh'.pauses = MaxRetries - 1
       /\ fh'.last.kind = "errors" =>
            fo'.pc = "thrown" /\ fh'.attempts = fh.attempts + 1
    ]_vars

\* C19: whatever the source answers, fetchOrders sends at most max_pages page
\* requests and makes at most max_pages x maxRetries attempts, sends nothing
\* after a page that reported hasNextPage = false, and every call ends
\* (returns or throws).
C19_FetchTerminates ==
  /\ [](/\ Len(fh.requests) <= MaxPages
        /\ fh.attempts <= MaxPages * MaxRetries
        /\ fo.pc \in {"returned", "thrown"} => ~(ENABLED NextFetch))
  /\ [][(fh'.last.kind = "page" /\ ~fo'.hasNextPage /\ fo.pc = "fetch")
          => fo'.pc = "returned"]_vars
  /\ (fo.pc = "fetch" ~> fo.pc \in {"returned", "thrown"})

\* C19 witness: a source that always reports more pages was left after
\* max_pages pages, each obtained at the last allowed attempt.
C19_Witness ==
  /\ fo.pc = "returned" /\ fo.hasNextPage
  /\ Len(fh.requests) = MaxPages
  /\ fh.attempts = MaxPages * MaxRetries

\* C20 as stated: the first request carries no cursor, every later request
\* carries the cursor of the last item of the page before it, and no two
\* requests carry the same cursor.
C20_CursorOfPrecedingPage ==
  /\ Len(fh.requests) > 0 => fh.requests[1] = Null
  /\ \A i \in 2..Len(fh.requests) :
       /\ fh.lasts[i - 1] # Null
       /\ fh.requests[i] = fh.lasts[i - 1]
  /\ \A i, j \in 1..Len(fh.requests) : fh.requests[i] = fh.requests[j] => i = j

\* C20 amended: the first request carries no cursor; a later request carries
\* the cursor of the last item of the page before it when that page had
\* items, and the cursor of the request before it when that page was empty
\* (only then is a page requested twice); requests follow pages strictly in
\* sequence.
C20_CursorOfLastNonEmptyPage ==
  /\ Len(fh.requests) > 0 => fh.requests[1] = Null
  /\ Len(fh.lasts) \in {Len(fh.requests), Len(fh.requests) - 1}
  /\ \A i \in 2..Len(fh.requests) :
       fh.requests[i] = IF fh.lasts[i - 1] # Null THEN fh.lasts[i - 1]
                                                 ELSE fh.requests[i - 1]
  /\ \A i, j \in 1..Len(fh.requests) :
       (i < j /\ fh.requests[i] = fh.requests[j]) => fh.lasts[j - 1] = Null

\* C20 witness: the second request of a call carries the cursor of the last
\* item of a full first page.
C20_Witness ==
  /\ Len(fh.requests) = 2
  /\ fh.requests[2] = PageLimit
  /\ fh.lasts[1] = PageLimit

\* Handler p sends a success response after a run in which no call failed.
CompletesWithoutError(p) ==
  /\ pc[p] \in {"noNew_update", "updateOrderSync"}
  /\ pc'[p] = "idle"
  /\ response' \in {"no_new", "synced"}
  /\ storeErrors[p] = 0

\* The stored order ids.
StoredIds(tbl) == {it.order_id : it \in tbl}

\* C13: over a fixed source, whatever the earlier runs did, when a run
\* completes without any error every marker-tagged order created at or after
\* the shop's created_at is in the orders table.
C13_NoDataLoss ==
  [][\A p \in Procs : CompletesWithoutError(p) =>
       \A o \in source :
         (o.has_marker /\ o.created_at >= ShopCreatedAt) => o.id \in StoredIds(orders')
    ]_vars

\* C14: across runs that follow one another, each order id is returned as
\* created (counted as new) at most once; a create for an order that an
\* earlier run stored leaves the table, and so the stored record, unchanged,
\* is not counted as new, and is counted as a duplicate when the table
\* answers.
C14_NeverReimported ==
  [][/\ \A i \in Ids : createdCount'[i] <= 1
     /\ \A p \in Procs : CreateStep(p) =>
          LET order == sbbOrders[p][idx[p]]
          IN  (\E it \in orders : it.order_id = order.id /\ it.synced_at < now) =>
                /\ orders' = orders
                /\ newIds'[p] = newIds[p]
                /\ newOrdersCount'[p] = newOrdersCount[p]
                /\ storeErrors'[p] = storeErrors[p] =>
                     /\ order.id \in dupIds'[p]
                     /\ duplicatesSkipped'[p] = duplicatesSkipped[p] + 1
    ]_vars

\* C14 witness: a later run fetched from the inclusive floor the order an
\* earlier run stored at exactly that creation time, and counted it as a
\* duplicate.
C14_Witness ==
  \E p \in Procs : \E it \in orders :
    /\ it.order_id \in dupIds[p]
    /\ it.synced_at < now
    /\ created_at_min[p] = shop[p].last_synced_order_created_at
    /\ it.created_at = created_at_min[p]
    /\ duplicatesSkipped[p] = 1 /\ newOrdersCount[p] = 0

\* C16: under every interleaving of generate-image requests, images_used
\* never exceeds images_limit; incrementUsage adds to images_used only while
\* images_used < images_limit; a request that finds images_used >=
\* images_limit is answered limit_reached and leaves images_used unchanged.
C16_UsageWithinLimit ==
  [][/\ usage'.images_used <= usage'.images_limit
     /\ \A p \in Procs :
          /\ (gpc[p] = "incrementUsage" /\ usage'.images_used # usage.images_used)
               => usage.images_used < usage.images_limit
          /\ (gpc[p] = "findOrCreate" /\ gpc'[p] = "idle"
                /\ genResponse' = "limit_reached")
               => /\ usage.images_used >= usage.images_limit
                  /\ usage' = usage
    ]_vars

\* A step of a sync handler.
SyncStep == pc' # pc \/ idx' # idx \/ response' # response

\* C17: every step of a sync run, its checkpoint writes included, leaves
\* images_used, images_limit and plan_type as they are; every usage operation
\* leaves order_sync (and the orders table) as it is and has its own full
\* effect on the stored item, whatever the sync run wrote in between.
C17_SyncAndUsageWriteDisjointFields ==
  [][/\ SyncStep => usage' = usage
     /\ ~SyncStep =>
          /\ order_sync' = order_sync /\ orders' = orders
          /\ \/ usage' = [usage EXCEPT !.images_used = @ + 1]
             \/ usage' = [usage EXCEPT !.images_used = 0]
             \/ /\ usage'.images_used = 0
                /\ usage'.plan_type \in {"free", "pro"}
                /\ usage'.images_limit \in {ImagesLimit, ImagesLimit + 1}
    ]_vars

\* C17 witness: a sync run that has set its flag and stored an order is about
\* to write its checkpoint while the plan has been changed and usage counted.
C17_Witness ==
  \E p \in Procs :
    /\ pc[p] = "updateOrderSync" /\ newOrdersCount[p] > 0
    /\ order_sync.is_syncing
    /\ usage.plan_type = "pro"
    /\ usage.images_limit = ImagesLimit + 1
    /\ usage.images_used = MaxUsed

\* ---------------------------------------------------------------------
\* An order has at least one line item carrying the custom attribute
\* `_sbb_try_on` with the value 'true'.
Marked(o) ==
  /\ "line_items" \in DOMAIN o
  /\ \E i \in DOMAIN o.line_items :
       /\ "properties" \in DOMAIN o.line_items[i]
       /\ \E pr \in Range(o.line_items[i].properties) :
            pr.name = "_sbb_try_on" /\ pr.value = "true"

\* The positions of the marked orders of the array at hand.
Kept == {i \in 1..Len(ordersArg) : Marked(ordersArg[i])}

\* C21: filterSBBOrders returns, in input order, exactly the orders that have
\* a line item whose `_sbb_try_on` attribute is 'true'; an order without line
\* items, or whose items have no custom attributes, is left out and the call
\* still returns.
C21_FilterKeepsMarkedInOrder ==
  callee.fn = "filterSBBOrders" =>
    /\ Len(returned) = Cardinality(Kept)
    /\ \A k \in 1..Len(returned) :
         \E i \in Kept :
           /\ Cardinality({j \in Kept : j <= i}) = k
           /\ returned[k] = ordersArg[i]

\* An order without line items is dropped and the one after it, marked on
\* its second line item only, is returned.
C21_Witness ==
  /\ callee.fn = "filterSBBOrders"
  /\ Len(ordersArg) = 2
  /\ "line_items" \notin DOMAIN ordersArg[1]
  /\ Len(ordersArg[2].line_items) = 2
  /\ ~ItemHasMarker(ordersArg[2].line_items[1])
  /\ returned = <<ordersArg[2]>>

\* The distinct non-empty `_sbb_session_id` values over the line items of
\* the order extractSessionIds was called on.
SessionIdValues(o) ==
  IF "line_items" \in DOMAIN o
  THEN {pr.value : pr \in
          {q \in UNION {IF "properties" \in DOMAIN it THEN Range(it.properties) ELSE {}
                          : it \in Range(o.line_items)} :
             q.name = "_sbb_session_id" /\ q.value # ""}}
  ELSE {}

\* C22: extractSessionIds returns the distinct non-empty `_sbb_session_id`
\* values of the order's line items, none of them twice; for an order
\* without line items or without that attribute it returns the empty array.
C22_DistinctSessionIds ==
  callee.fn = "extractSessionIds" =>
    /\ Range(returned) = SessionIdValues(ordersArg[callee.i])
    /\ \A a, b \in 1..Len(returned) : returned[a] = returned[b] => a = b

\* Two line items carry the same session id: it is returned once.
C22_Witness ==
  /\ callee.fn = "extractSessionIds"
  /\ "line_items" \in DOMAIN ordersArg[callee.i]
  /\ Len(PushSessionIdsOfItems(<<>>, ordersArg[callee.i].line_items)) = 2
  /\ Len(returned) = 1

\* ---------------------------------------------------------------------
\* The checkpoint fields a run without new orders must leave alone.
ProgressFields ==
  {"last_synced_order_id", "last_synced_order_number",
   "last_synced_order_created_at", "total_orders_synced", "last_sync_count"}

\* Handler p answers that there is nothing new.
NoNewStep(p) == pc[p] = "noNew_update" /\ pc'[p] = "idle" /\ response' = "no_new"

\* C23: a run whose filtered set is empty rewrites last_sync_time and clears
\* is_syncing and nothing else: the five progress fields are what the run
\* read before it began (absent stays absent on a first sync), no order is
\* written, and the run answers success with zero new orders.
C23_NoNewOrdersFrame ==
  [][\A p \in Procs :
       NoNewStep(p) =>
         /\ \A f \in ProgressFields : order_sync'[f] = shop[p][f]
         /\ Total(order_sync') = totalBefore[p]
         /\ order_sync'.is_syncing = FALSE
         /\ order_sync'.last_sync_time = now
         /\ orders' = orders
         /\ "order" \notin did[p]
         /\ sbbOrders[p] = <<>>
         /\ newOrdersCount[p] = 0]_vars

\* A first sync found orders, none of them marked, and answered that nothing
\* is new: the progress fields are still absent although setSyncingFlag had
\* stored them as null and 0 in between.
C23_Witness ==
  /\ response = "no_new"
  /\ \A p \in Procs : pc[p] = "idle"
  /\ source # {}
  /\ orders = {}
  /\ order_sync.is_syncing = FALSE
  /\ order_sync.last_sync_time = now
  /\ \A f \in ProgressFields : order_sync[f] = Undef

\* ---------------------------------------------------------------------
\* C24: a storage error on one order does not end the run: the order is
\* counted neither as new nor as a duplicate, the loop goes on to every other
\* filtered order, and the checkpoint write that follows, once the shop store
\* answers it, clears is_syncing and the run reports success.
C24_OrderErrorDoesNotAbort ==
  [][\A p \in Procs :
       /\ (CreateStep(p) /\ storeErrors'[p] > storeErrors[p]) =>
            /\ orders' = orders
            /\ newOrdersCount'[p] = newOrdersCount[p]
            /\ duplicatesSkipped'[p] = duplicatesSkipped[p]
            /\ pc'[p] = IF idx[p] < Len(sbbOrders[p])
                        THEN "create" ELSE "updateOrderSync"
       /\ (pc[p] = "updateOrderSync" /\ pc'[p] = "idle") =>
            /\ idx[p] = Len(sbbOrders[p]) + 1
            /\ newOrdersCount[p] + duplicatesSkipped[p] + storeErrors[p]
                 = Len(sbbOrders[p])
            /\ order_sync'.is_syncing = FALSE
            /\ order_sync'.last_sync_count = newOrdersCount[p]
            /\ response' = "synced"]_vars

\* A run of two marked orders has answered success although the write of the
\* newer order failed: the older one, tried after it, is stored and counted.
C24_Witness ==
  /\ response = "synced"
  /\ \A p \in Procs : pc[p] = "idle"
  /\ now = 1
  /\ order_sync.is_syncing = FALSE
  /\ order_sync.last_sync_count = 1
  /\ Cardinality({o \in source : o.has_marker}) = 2
  /\ Cardinality(orders) = 1
  /\ order_sync.last_synced_order_id \notin StoredIds(orders)

\* ---------------------------------------------------------------------
\* C26: after every successful run with a non-empty filtered set, the
\* checkpoint's last_synced_order_id and last_synced_order_created_at are
\* those of an order present in the orders table.
C26_CheckpointPointsToStoredOrder ==
  [][\A p \in Procs : SyncedStep(p) =>
       \E it \in orders' :
         /\ it.order_id = order_sync'.last_synced_order_id
         /\ it.created_at = order_sync'.last_synced_order_created_at]_vars

\* C27: whenever no sync run is executing, total_orders_synced equals the
\* number of orders in the orders table, whatever runs came before, runs
\* that failed after writing some orders included.
C27_TotalEqualsStoredCount ==
  (\A p \in Procs : pc[p] = "idle") => Total(order_sync) = Cardinality(orders)

\* ---------------------------------------------------------------------
\* C25: the guard reads the flag and acts on what it read; the flag is
\* stored by later steps.  A request that reads is_syncing = false passes
\* whatever the other requests are doing, passing writes nothing, and the
\* steps that store the flag do not look at it again: two requests that both
\* read false before either wrote both go on to fetch, store and write the
\* checkpoint.
C25_GuardIsReadThenAct ==
  [][\A p \in Procs :
       /\ (pc[p] = "findOne" /\ pc'[p] # "findOne" /\ ~order_sync.is_syncing) =>
            /\ order_sync' = order_sync
            /\ \/ pc'[p] = "setFlag_get"
               \/ pc'[p] = "idle" /\ response' = "error"
       /\ (pc[p] = "setFlag_get" /\ pc'[p] # "setFlag_get") =>
            \/ pc'[p] = "setFlag_update"
            \/ pc'[p] = "idle" /\ response' = "error"
       /\ (pc[p] = "setFlag_update" /\ pc'[p] # "setFlag_update") =>
            \/ pc'[p] = "fetchOrders" /\ order_sync'.is_syncing
            \/ pc'[p] = "idle" /\ response' = "error"]_vars

\* Two runs are past the guard at once: both have stored the flag, fetched
\* and gone through the store loop, and both are about to write the checkpoint.
C25_Witness ==
  \A p \in Procs :
    /\ pc[p] = "updateOrderSync"
    /\ {"flag", "fetch"} \subseteq did[p]
    /\ Len(sbbOrders[p]) > 0

\* ---------------------------------------------------------------------
\* C28: no counter update is lost between runs.  When a run reports success
\* after another run has reported success and no run is left executing,
\* total_orders_synced is what it was before the two runs (0: the orders
\* table was empty) plus the orders the two runs stored, and is_syncing is
\* false; also when the two runs overlapped.
C28_NoLostCounterUpdate ==
  [][\A p \in Procs :
       (/\ SyncedStep(p)
        /\ response = "synced"
        /\ \A q \in Procs \ {p} : pc[q] = "idle") =>
         /\ Total(order_sync') = Cardinality(orders')
         /\ order_sync'.is_syncing = FALSE]_vars

\* ---------------------------------------------------------------------
\* The stored high-water mark; an absent one reads as null.
HighWater(s) == OrStr(s.last_synced_order_created_at, Null)

\* C29: with a source that returns only orders created at or after the
\* lower bound it is asked for, last_synced_order_created_at never decreases
\* (and, once set, is never unset), whether runs follow one another or overlap.
C29_HighWaterNeverDecreases ==
  [][HighWater(order_sync') >= HighWater(order_sync)]_vars

\* Handler p leaves the UpdateCommand of setSyncingFlag (true or false).
FlagWriteStep(p) ==
  /\ pc[p] \in {"setFlag_update", "catch_update"}
  /\ pc'[p] # pc[p]

\* C30: setSyncingFlag changes is_syncing only: after its write the other
\* six fields of the checkpoint are the ones stored just before that write
\* (an absent field counting as its null or 0), also when another writer
\* replaced the checkpoint between setSyncingFlag's read and its write.
C30_FlagWriteKeepsOtherFields ==
  [][\A p \in Procs : FlagWriteStep(p) =>
       SyncingFlagData(order_sync', FALSE) = SyncingFlagData(order_sync, FALSE)]_vars
====
